---- MODULE Spec2Model ----
(***************************************************************************)
(* A model of monitor.py, the Polymarket monitor bot: the seen-set engine  *)
(* behind the new-market check (main's initialisation, check_new_events),  *)
(* the schedule of the report job (main, daily_95_report), main's loop     *)
(* around run_polling, the high-conviction filter                          *)
(* (get_high_conviction_events, cmd_95_1d), the report job's own copy of   *)
(* it, the tracked-events digest (get_market_details, daily_market_update) *)
(* and the commands that only read (start, help_command, status, latest).  *)
(***************************************************************************)
EXTENDS Integers, Sequences, FiniteSets

(* ---------------------------------------------------------------------- *)
(* Bounds of the model                                                     *)
(* ---------------------------------------------------------------------- *)

\* Event identifiers are 1..MaxId.
MaxId == 2

\* The longest batch one fetch returns.
MaxBatch == 2

\* The runs of daily_95_report the job queue is followed for.
MaxRuns == 4

\* The longest list of outcome prices a market is given.
MaxPrices == 2

(* ---------------------------------------------------------------------- *)
(* Part 1: the seen-set engine                                             *)
(* ---------------------------------------------------------------------- *)

VARIABLES
    TELEGRAM_BOT_TOKEN,  \* TRUE iff the environment sets the bot token
    TELEGRAM_CHAT_ID,    \* TRUE iff the environment sets the chat id
    phase,               \* "boot", "running" (jobs registered) or "exited"
    seen_ids,            \* the global set of seen event identifiers
    last_check_time,     \* "None", or "utcnow" once a check has read the clock
    pc,                  \* check_new_events: "idle", or "sending" while it
                         \* awaits send_message
    todo,                \* check_new_events: what reversed(events) still holds,
                         \* the event being notified first
    events,              \* the batch the latest check fetched
    initBatch,           \* history: the batch main initialised from, kept
                         \* until the first check begins
    sameAsInit,          \* history: the latest check is the first one and
                         \* fetched the batch main initialised from
    repeat,              \* history: the latest check fetched the batch the
                         \* check before it fetched
    startSeen,           \* history: seen_ids when the latest check began
    tickLog,             \* history: the identifiers send_message was called
                         \* for by the latest check, in call order
    tickResult,          \* history: "none", "running", "returned", "raised"
    notified,            \* history: the identifiers send_message was called
                         \* for since the process started
    failed,              \* history: the identifiers for which send_message
                         \* raised since the process started
    fetchResult,         \* history: "none", or whether the request of the
                         \* latest check went "ok" or "failed"
    other,               \* a second execution of check_new_events: its pc
                         \* and its todo
    startup,             \* main: datetime.now(timezone.utc) at line 491, in
                         \* seconds, day 0 starting at 0
    first_run_seconds,   \* main: the delay of the first daily_95_report, 0
                         \* until it is computed
    report_times,        \* the instants the job queue has run daily_95_report
                         \* at, in seconds
    polling,             \* main's loop around run_polling: its state ("none"
                         \* before it, "polling", "returned", "raised", or
                         \* "ended" when the loop runs out), retry, retry_delay,
                         \* and as history the calls of run_polling (starts),
                         \* the waits slept and the kind of the last error
    api_response,        \* what the upstream answers to the query for the
                         \* events of highest liquidity
    slug_responses,      \* what the upstream answers to the query for each
                         \* of TARGET_EVENT_SLUGS, in their order
    now,                 \* datetime.now(timezone.utc), in hours
    reply                \* what the latest command or daily job replied or
                         \* sent

engineVars == <<TELEGRAM_BOT_TOKEN, TELEGRAM_CHAT_ID, phase, seen_ids,
                last_check_time, pc, todo, events, initBatch, sameAsInit,
                repeat, startSeen, tickLog, tickResult, notified, failed,
                fetchResult>>

queryVars == <<api_response, slug_responses, now, reply>>

overlapVars == <<other>>

scheduleVars == <<startup, first_run_seconds, report_times, polling>>

vars == <<engineVars, queryVars, overlapVars, scheduleVars>>

\* What event.get('id') gives for an event without an id: None, which is falsy
\* like an id of 0 or ''.
NoId == 0

Ids == 1..MaxId

\* An event is modelled by what event.get('id') gives.
EventIds == Ids \cup {NoId}

RECURSIVE SeqsUpTo(_, _)
SeqsUpTo(S, n) ==
    IF n = 0 THEN {<<>>}
    ELSE LET shorter == SeqsUpTo(S, n - 1)
         IN  shorter \cup {Append(s, x) : s \in {t \in shorter : Len(t) = n - 1}, x \in S}

\* The event lists the upstream API may answer with.
Batches == SeqsUpTo(EventIds, MaxBatch)

\* The outcomes of requests.get: the request fails, or it answers a batch.
Responses == {[ok |-> FALSE, body |-> <<>>]} \cup {[ok |-> TRUE, body |-> b] : b \in Batches}

Range(s) == {s[i] : i \in 1..Len(s)}

\* A slip: a failed request answers the event of identifier 1.
get_events_one_on_failure(resp) == IF resp.ok THEN resp.body ELSE <<1>>

\* lines 32-41: response.json(), [] when the request or its decoding raises.
get_events(resp) == IF resp.ok THEN resp.body ELSE <<>>

\* A slip: the batch is walked as fetched, newest first.
reversed_newest_first(s) == s

\* line 316: reversed(events)
reversed(s) == [i \in 1..Len(s) |-> s[Len(s) + 1 - i]]

\* A slip: the initialisation adds the newest event's id only.
InitialiseSeen_newest_only(s, batch) ==
    IF batch = <<>> THEN s ELSE s \cup {Head(batch)}

\* main, lines 462-463: every event's id is added, a missing one as None.
InitialiseSeen(s, batch) == s \cup Range(batch)

\* line 318: event_id and event_id not in seen_ids
IsNew(event_id, s) == event_id # NoId /\ event_id \notin s

\* line 320: if seen_ids
NotFirstRun(s) == s # {}

\* A slip: the seen set is replaced by the identifier instead of growing by it.
AddSeen_replacing(s, event_id) == {event_id}

\* line 331: seen_ids.add(event_id)
AddSeen(s, event_id) == s \cup {event_id}

\* The loop of check_new_events from the events left in `rest`, run up to its
\* next await (send_message, line 329) or to its end: the events left, the first
\* of them being notified when `sending`, and the seen set.
RECURSIVE RunLoop(_, _, _)
RunLoop(rest, s, chat) ==
    IF rest = <<>> THEN [todo |-> <<>>, seen |-> s, sending |-> FALSE]
    ELSE LET event_id == Head(rest)
         IN  IF IsNew(event_id, s)
             THEN IF NotFirstRun(s) /\ chat
                  THEN [todo |-> rest, seen |-> s, sending |-> TRUE]
                  ELSE RunLoop(Tail(rest), AddSeen(s, event_id), chat)
             ELSE RunLoop(Tail(rest), s, chat)

\* No second execution of check_new_events is under way.
NoOther == [pc |-> "idle", todo |-> <<>>]

\* line 492: hour=10
AnchorHour == 10

\* line 492: minute=15
AnchorMinute == 15

\* line 496: interval=28800
ReportInterval == 28800

SecondsPerDay == 24 * 60 * 60

\* line 492: now.replace(hour=10, minute=15, second=0, microsecond=0)
AtAnchor(t) ==
    (t - (t % SecondsPerDay)) + (AnchorHour * 3600) + (AnchorMinute * 60)

\* A slip: a startup at the anchor itself is not taken as passed.
Passed_strictly(target_time, t) == target_time < t

\* line 493: target_time <= now
Passed(target_time, t) == target_time <= t

\* lines 492-494: the anchor of today, of tomorrow when today's has passed.
TargetTime(target_time, t) ==
    IF Passed(target_time, t) THEN target_time + SecondsPerDay ELSE target_time

\* lines 491-495: (target_time - now).total_seconds(), in whole seconds.
FirstRunSeconds(t) == TargetTime(AtAnchor(t), t) - t

\* lines 478-503: the jobs are registered and the application polls.
PollingStarted_at_import == phase \in {"boot", "running"}

PollingStarted == phase = "running"

\* line 501: max_retries = 5
max_retries == 5

\* line 502: retry_delay = 5
first_retry_delay == 5

\* Before main reaches its loop around run_polling.
NotPolling ==
    [state |-> "none", retry |-> 0, retry_delay |-> 0, starts |-> 0,
     sleeps |-> <<>>, error |-> "none"]

\* lines 501-507: the first turn of the loop has called run_polling.
FirstStart ==
    [state |-> "polling", retry |-> 0, retry_delay |-> first_retry_delay,
     starts |-> 1, sleeps |-> <<>>, error |-> "none"]

\* Before a command has been handled.
NoReply == [by |-> "none", kind |-> "none", list |-> <<>>]

\* lines 17-20
TARGET_EVENT_SLUGS ==
    <<"trump-out-as-president-by-march-31", "trump-out-as-president-before-2027">>

\* The request for each tracked slug fails.
NoSlugResponses == [i \in DOMAIN TARGET_EVENT_SLUGS |-> [ok |-> FALSE, body |-> <<>>]]

Init ==
    /\ api_response = [ok |-> FALSE, body |-> <<>>]
    /\ slug_responses = NoSlugResponses
    /\ now = 0
    /\ reply = NoReply
    /\ TELEGRAM_BOT_TOKEN \in BOOLEAN
    /\ TELEGRAM_CHAT_ID \in BOOLEAN
    /\ phase = "boot"
    /\ seen_ids = {}
    /\ last_check_time = "None"
    /\ pc = "idle"
    /\ todo = <<>>
    /\ events = <<>>
    /\ initBatch = <<>>
    /\ sameAsInit = FALSE
    /\ repeat = FALSE
    /\ startSeen = {}
    /\ tickLog = <<>>
    /\ tickResult = "none"
    /\ notified = {}
    /\ failed = {}
    /\ fetchResult = "none"
    /\ other = NoOther
    /\ startup = 0
    /\ first_run_seconds = 0
    /\ report_times = <<>>
    /\ polling = NotPolling

\* main, lines 439-441: without a bot token the process ends at once.
main_no_token ==
    /\ phase = "boot"
    /\ ~TELEGRAM_BOT_TOKEN
    /\ phase' = "exited"
    /\ UNCHANGED <<TELEGRAM_BOT_TOKEN, TELEGRAM_CHAT_ID, seen_ids,
                   last_check_time, pc, todo, events, initBatch, sameAsInit,
                   repeat, startSeen, tickLog, tickResult, notified, failed,
                   fetchResult>>
    /\ UNCHANGED <<queryVars, overlapVars, scheduleVars>>

\* main, lines 460-507: the seen set is initialised from one fetch, the
\* handlers and the jobs are registered, and run_polling is called.
main_initialize ==
    /\ phase = "boot"
    /\ TELEGRAM_BOT_TOKEN
    /\ \E resp \in Responses :
          LET initial_events == get_events(resp)
          IN  /\ seen_ids' = InitialiseSeen(seen_ids, initial_events)
              /\ initBatch' = initial_events
    /\ first_run_seconds' = FirstRunSeconds(startup)
    /\ polling' = FirstStart
    /\ phase' = "running"
    /\ UNCHANGED <<TELEGRAM_BOT_TOKEN, TELEGRAM_CHAT_ID, last_check_time, pc,
                   todo, events, sameAsInit, repeat, startSeen, tickLog,
                   tickResult, notified, failed, fetchResult>>
    /\ UNCHANGED <<queryVars, overlapVars, startup, report_times>>

\* What one stretch of check_new_events between two awaits leaves behind.
LoopEffect(r) ==
    /\ seen_ids' = r.seen
    /\ todo' = r.todo
    /\ pc' = IF r.sending THEN "sending" ELSE "idle"
    /\ tickResult' = IF r.sending THEN "running" ELSE "returned"

\* The call of send_message the loop stopped at, if any, is recorded.
LogCall(r, log) ==
    /\ tickLog' = IF r.sending THEN Append(log, Head(r.todo)) ELSE log
    /\ notified' = IF r.sending THEN notified \cup {Head(r.todo)} ELSE notified

\* check_new_events, lines 308-329: a tick of the job, from its start to its
\* first await or to its end.
check_begin ==
    /\ PollingStarted
    /\ pc = "idle"
    /\ last_check_time' = "utcnow"
    /\ \E resp \in Responses :
          LET fetched == get_events(resp)
              r == RunLoop(reversed(fetched), seen_ids, TELEGRAM_CHAT_ID)
          IN  /\ events' = fetched
              /\ fetchResult' = IF resp.ok THEN "ok" ELSE "failed"
              /\ sameAsInit' = (tickResult = "none" /\ fetched = initBatch)
              /\ repeat' = (tickResult # "none" /\ fetched = events)
              /\ LoopEffect(r)
              /\ LogCall(r, <<>>)
    /\ startSeen' = seen_ids
    /\ initBatch' = <<>>
    /\ UNCHANGED <<TELEGRAM_BOT_TOKEN, TELEGRAM_CHAT_ID, phase, failed>>
    /\ UNCHANGED <<queryVars, overlapVars, scheduleVars>>

\* check_new_events, lines 329-331: send_message returns, the identifier is
\* added and the loop goes on to its next await or to its end.
send_returns ==
    /\ pc = "sending"
    /\ LET r == RunLoop(Tail(todo), AddSeen(seen_ids, Head(todo)), TELEGRAM_CHAT_ID)
       IN  /\ LoopEffect(r)
           /\ LogCall(r, tickLog)
    /\ UNCHANGED <<TELEGRAM_BOT_TOKEN, TELEGRAM_CHAT_ID, phase, last_check_time,
                   events, initBatch, sameAsInit, repeat, startSeen, failed,
                   fetchResult>>
    /\ UNCHANGED <<queryVars, overlapVars, scheduleVars>>

\* check_new_events, line 329: send_message raises; nothing catches it, so
\* the tick ends there, before line 331.
send_raises ==
    /\ pc = "sending"
    /\ pc' = "idle"
    /\ todo' = <<>>
    /\ tickResult' = "raised"
    /\ failed' = failed \cup {Head(todo)}
    /\ UNCHANGED <<TELEGRAM_BOT_TOKEN, TELEGRAM_CHAT_ID, phase, seen_ids,
                   last_check_time, events, initBatch, sameAsInit, repeat,
                   startSeen, tickLog, notified, fetchResult>>
    /\ UNCHANGED <<queryVars, overlapVars, scheduleVars>>

Next ==
    \/ main_no_token
    \/ main_initialize
    \/ check_begin
    \/ send_returns
    \/ send_raises

Spec == Init /\ [][Next]_vars

(* ---------------------------------------------------------------------- *)
(* Part 1a: the schedule of daily_95_report                                *)
(* ---------------------------------------------------------------------- *)

\* A slip: the interval is counted from the end of a run that lasts a second.
NextRun_after_the_run(last) == last + ReportInterval + 1

\* line 496: run_repeating(..., interval=28800, ...): the run after the one
\* at `last`.
NextRun(last) == last + ReportInterval

\* line 496: run_repeating(..., first=first_run_seconds): the first run.
FirstRun(t, first) == t + first

\* The job queue finds a run of daily_95_report due. (What the run does is
\* daily_95_report below.)
report_due ==
    /\ PollingStarted
    /\ Len(report_times) < MaxRuns
    /\ report_times' =
          Append(report_times,
                 IF report_times = <<>> THEN FirstRun(startup, first_run_seconds)
                 ELSE NextRun(report_times[Len(report_times)]))
    /\ UNCHANGED <<engineVars, queryVars, overlapVars, startup, first_run_seconds,
                   polling>>

\* The clock at startup: every quarter of an hour, the second before the
\* anchor, the second after it, the last second of the day.
StartupClocks == {q * 900 : q \in 0..95} \cup {36899, 36901, 86399}

\* The startup instants: those clocks on day 0 and on day 1.
Startups == {d * SecondsPerDay + c : d \in 0..1, c \in StartupClocks}

InitSchedule ==
    /\ api_response = [ok |-> FALSE, body |-> <<>>]
    /\ slug_responses = NoSlugResponses
    /\ now = 0
    /\ reply = NoReply
    /\ TELEGRAM_BOT_TOKEN = TRUE
    /\ TELEGRAM_CHAT_ID \in BOOLEAN
    /\ phase = "boot"
    /\ seen_ids = {}
    /\ last_check_time = "None"
    /\ pc = "idle"
    /\ todo = <<>>
    /\ events = <<>>
    /\ initBatch = <<>>
    /\ sameAsInit = FALSE
    /\ repeat = FALSE
    /\ startSeen = {}
    /\ tickLog = <<>>
    /\ tickResult = "none"
    /\ notified = {}
    /\ failed = {}
    /\ fetchResult = "none"
    /\ other = NoOther
    /\ startup \in Startups
    /\ first_run_seconds = 0
    /\ report_times = <<>>
    /\ polling = NotPolling

NextSchedule ==
    \/ main_initialize
    \/ report_due

\* main and the runs of daily_95_report, from every startup instant.
SpecSchedule == InitSchedule /\ [][NextSchedule]_vars

(* ---------------------------------------------------------------------- *)
(* Part 1c: main's loop around run_polling                                 *)
(* ---------------------------------------------------------------------- *)

\* What run_polling raises, by whether "Conflict" is in str(e).
Errors == {"Conflict", "other"}

\* A slip: a Conflict is waited out on the last attempt too.
CanRetry_on_every_attempt(error, retry) == error = "Conflict" /\ retry < max_retries

\* line 511: "Conflict" in error_msg and retry < max_retries - 1
CanRetry(error, retry) == error = "Conflict" /\ retry < max_retries - 1

\* line 515: retry_delay *= 2
NextDelay(retry_delay) == retry_delay * 2

\* lines 512-522, then line 504: the wait, the longer delay, and the next turn
\* of `for retry in range(max_retries)`, which calls run_polling again (lines
\* 506-507) when there is one and ends the loop when there is none.
Retried(p, error) ==
    [state |-> IF p.retry + 1 < max_retries THEN "polling" ELSE "ended",
     retry |-> IF p.retry + 1 < max_retries THEN p.retry + 1 ELSE p.retry,
     retry_delay |-> NextDelay(p.retry_delay),
     starts |-> IF p.retry + 1 < max_retries THEN p.starts + 1 ELSE p.starts,
     sleeps |-> Append(p.sleeps, p.retry_delay),
     error |-> error]

\* lines 507-508: run_polling returns and `break` leaves the loop; main ends.
run_polling_returns ==
    /\ phase = "running"
    /\ polling.state = "polling"
    /\ polling' = [polling EXCEPT !.state = "returned"]
    /\ phase' = "exited"
    /\ UNCHANGED <<TELEGRAM_BOT_TOKEN, TELEGRAM_CHAT_ID, seen_ids,
                   last_check_time, pc, todo, events, initBatch, sameAsInit,
                   repeat, startSeen, tickLog, tickResult, notified, failed,
                   fetchResult>>
    /\ UNCHANGED <<queryVars, overlapVars, startup, first_run_seconds, report_times>>

\* lines 509-525: run_polling raises; the error is waited out and the loop
\* goes on, or it is raised again and ends the process.
run_polling_raises ==
    /\ phase = "running"
    /\ polling.state = "polling"
    /\ \E error \in Errors :
          IF CanRetry(error, polling.retry)
          THEN /\ polling' = Retried(polling, error)
               /\ phase' = IF Retried(polling, error).state = "polling"
                           THEN "running" ELSE "exited"
          ELSE /\ polling' = [polling EXCEPT !.state = "raised", !.error = error]
               /\ phase' = "exited"
    /\ UNCHANGED <<TELEGRAM_BOT_TOKEN, TELEGRAM_CHAT_ID, seen_ids,
                   last_check_time, pc, todo, events, initBatch, sameAsInit,
                   repeat, startSeen, tickLog, tickResult, notified, failed,
                   fetchResult>>
    /\ UNCHANGED <<queryVars, overlapVars, startup, first_run_seconds, report_times>>

NextPolling ==
    \/ main_no_token
    \/ main_initialize
    \/ run_polling_returns
    \/ run_polling_raises

\* main from its start to its end, the jobs left aside.
SpecPolling == Init /\ [][NextPolling]_vars

(* ---------------------------------------------------------------------- *)
(* Part 1b: a second execution of check_new_events                         *)
(* ---------------------------------------------------------------------- *)

\* What one stretch of the second execution between two awaits leaves behind.
OtherEffect(r) ==
    /\ seen_ids' = r.seen
    /\ other' = [pc |-> IF r.sending THEN "sending" ELSE "idle", todo |-> r.todo]
    /\ notified' = IF r.sending THEN notified \cup {Head(r.todo)} ELSE notified

\* check_new_events, lines 308-329, begun by the job queue while the first
\* execution awaits send_message: from its start to its first await or to its
\* end.
second_check_begin ==
    /\ PollingStarted
    /\ pc = "sending"
    /\ other.pc = "idle"
    /\ last_check_time' = "utcnow"
    /\ \E resp \in Responses :
          OtherEffect(RunLoop(reversed(get_events(resp)), seen_ids, TELEGRAM_CHAT_ID))
    /\ UNCHANGED <<TELEGRAM_BOT_TOKEN, TELEGRAM_CHAT_ID, phase, pc, todo, events,
                   initBatch, sameAsInit, repeat, startSeen, tickLog, tickResult,
                   failed, fetchResult>>
    /\ UNCHANGED <<queryVars, scheduleVars>>

\* lines 329-331 of the second execution: send_message returns.
second_send_returns ==
    /\ other.pc = "sending"
    /\ OtherEffect(RunLoop(Tail(other.todo), AddSeen(seen_ids, Head(other.todo)),
                           TELEGRAM_CHAT_ID))
    /\ UNCHANGED <<TELEGRAM_BOT_TOKEN, TELEGRAM_CHAT_ID, phase, last_check_time,
                   pc, todo, events, initBatch, sameAsInit, repeat, startSeen,
                   tickLog, tickResult, failed, fetchResult>>
    /\ UNCHANGED <<queryVars, scheduleVars>>

\* line 329 of the second execution: send_message raises.
second_send_raises ==
    /\ other.pc = "sending"
    /\ other' = NoOther
    /\ failed' = failed \cup {Head(other.todo)}
    /\ UNCHANGED <<TELEGRAM_BOT_TOKEN, TELEGRAM_CHAT_ID, phase, seen_ids,
                   last_check_time, pc, todo, events, initBatch, sameAsInit,
                   repeat, startSeen, tickLog, tickResult, notified, fetchResult>>
    /\ UNCHANGED <<queryVars, scheduleVars>>

NextOverlap ==
    \/ main_no_token
    \/ main_initialize
    \/ check_begin
    \/ send_returns
    \/ send_raises
    \/ second_check_begin
    \/ second_send_returns
    \/ second_send_raises

\* The engine with two executions of check_new_events that may overlap.
SpecOverlap == Init /\ [][NextOverlap]_vars

(* ---------------------------------------------------------------------- *)
(* Part 2: upstream payloads and their parsing                             *)
(* ---------------------------------------------------------------------- *)

\* A text is a tuple of one-character strings: "0.94" is <<"0", ".", "9", "4">>.
\* A JSON value of a payload is a record: t is "absent" (the key is missing),
\* "null", "str" (s is its text) or "list" (l is the texts of its items: an
\* item is a string, or a number or null written as its JSON text).
Absent == [t |-> "absent", s |-> <<>>, l |-> <<>>]

Null == [t |-> "null", s |-> <<>>, l |-> <<>>]

Str(text) == [t |-> "str", s |-> text, l |-> <<>>]

List(items) == [t |-> "list", s |-> <<>>, l |-> items]

\* dict.get(key, default)
Get(field, default) == IF field.t = "absent" THEN default ELSE field

DigitChars == <<"0", "1", "2", "3", "4", "5", "6", "7", "8", "9">>

IsDigit(c) == \E i \in DOMAIN DigitChars : DigitChars[i] = c

DigitValue(c) == (CHOOSE i \in DOMAIN DigitChars : DigitChars[i] = c) - 1

RECURSIVE DigitsValue(_)
DigitsValue(text) ==
    IF text = <<>> THEN 0
    ELSE 10 * DigitsValue(SubSeq(text, 1, Len(text) - 1)) + DigitValue(text[Len(text)])

RECURSIVE Pow10(_)
Pow10(n) == IF n = 0 THEN 1 ELSE 10 * Pow10(n - 1)

\* A number is the fraction num / den, den a power of ten.
Number(num, den) == [ok |-> TRUE, num |-> num, den |-> den]

\* float() raised.
NotANumber == [ok |-> FALSE, num |-> 0, den |-> 1]

\* The first index from i on that holds a character of c, or Len(text) + 1.
RECURSIVE Find(_, _, _)
Find(text, i, c) ==
    IF i > Len(text) \/ text[i] \in c THEN i ELSE Find(text, i + 1, c)

\* The text after its sign.
Unsigned(text) ==
    IF text # <<>> /\ text[1] \in {"-", "+"} THEN Tail(text) ELSE text

\* The number of the digits `body`, its point at `point` (after it when it has
\* none): digits but for the point, and one digit at least.
Magnitude(body, point) ==
    IF /\ \A i \in DOMAIN body \ {point} : IsDigit(body[i])
       /\ Len(body) >= (IF point <= Len(body) THEN 2 ELSE 1)
    THEN Number(DigitsValue(SubSeq(body, 1, point - 1) \o SubSeq(body, point + 1, Len(body))),
                Pow10(IF point <= Len(body) THEN Len(body) - point ELSE 0))
    ELSE NotANumber

WithSign(text, n) ==
    IF text # <<>> /\ text[1] = "-" THEN [n EXCEPT !.num = 0 - n.num] ELSE n

\* float() of a text: an optional sign, digits, at most one point and one digit
\* at least. (Exponents, "inf", "nan", underscores and surrounding blanks are
\* not modelled; a decimal of few digits compares as its float does.)
FloatOfText(text) ==
    WithSign(text, Magnitude(Unsigned(text), Find(Unsigned(text), 1, {"."})))

\* float(value): of a str its parse; None or a list raises TypeError.
float(value) == IF value.t = "str" THEN FloatOfText(value.s) ELSE NotANumber

Less(a, b) == a.num * b.den < b.num * a.den

\* max() of a non-empty list of numbers: the first of the greatest.
RECURSIVE max(_)
max(numbers) ==
    IF Len(numbers) = 1 THEN numbers[1]
    ELSE LET m == max(SubSeq(numbers, 1, Len(numbers) - 1))
         IN  IF Less(m, numbers[Len(numbers)]) THEN numbers[Len(numbers)] ELSE m

(* json.loads of a text, for the JSON this model writes: a list of strings,   *)
(* numbers and nulls, or one such scalar. Escapes, objects, nested lists,     *)
(* true and false are not modelled and do not occur in the payloads.          *)

RECURSIVE SkipBlanks(_, _)
SkipBlanks(text, i) ==
    IF i <= Len(text) /\ text[i] = " " THEN SkipBlanks(text, i + 1) ELSE i

IsJsonNumber(token) ==
    LET body == IF token # <<>> /\ token[1] = "-" THEN Tail(token) ELSE token
        points == {i \in DOMAIN body : body[i] = "."}
    IN  /\ body # <<>>
        /\ Cardinality(points) <= 1
        /\ \A i \in DOMAIN body \ points : IsDigit(body[i])
        /\ \A i \in points : 1 < i /\ i < Len(body)
        /\ (Len(body) > 1 /\ body[1] = "0") => body[2] = "."

NoScalar(i) == [ok |-> FALSE, item |-> <<>>, quoted |-> FALSE, next |-> i]

\* The string that opens at text[i] and closes at text[close].
JsonString(text, i, close) ==
    [ok |-> close <= Len(text) /\ \A k \in (i + 1)..(close - 1) : text[k] # "\\",
     item |-> SubSeq(text, i + 1, close - 1),
     quoted |-> TRUE,
     next |-> close + 1]

\* The number or null `token`, the text going on at `stop`.
JsonLiteral(token, stop) ==
    [ok |-> IsJsonNumber(token) \/ token = <<"n", "u", "l", "l">>,
     item |-> token,
     quoted |-> FALSE,
     next |-> stop]

JsonToken(text, i, stop) == JsonLiteral(SubSeq(text, i, stop - 1), stop)

\* The scalar that starts at text[i]: its text and the index after it.
JsonScalar(text, i) ==
    IF i > Len(text) THEN NoScalar(i)
    ELSE IF text[i] = "\"" THEN JsonString(text, i, Find(text, i + 1, {"\""}))
    ELSE JsonToken(text, i, Find(text, i, {",", "]", "[", " ", "\""}))

NoItems(i) == [ok |-> FALSE, items |-> <<>>, next |-> i]

\* The items of a list from text[i] on, i being after "[" or ","; acc holds the
\* items before, v is the scalar at i and `after` the index of what follows it.
RECURSIVE JsonItems(_, _, _)
RECURSIVE JsonItemsAfter(_, _, _, _)
JsonItemsAfter(text, acc, v, after) ==
    IF ~v.ok \/ after > Len(text) THEN NoItems(after)
    ELSE IF text[after] = "]"
    THEN [ok |-> TRUE, items |-> Append(acc, v.item), next |-> after + 1]
    ELSE IF text[after] = ","
    THEN JsonItems(text, after + 1, Append(acc, v.item))
    ELSE NoItems(after)

JsonItemsFrom(text, acc, v) == JsonItemsAfter(text, acc, v, SkipBlanks(text, v.next))

JsonItems(text, i, acc) == JsonItemsFrom(text, acc, JsonScalar(text, SkipBlanks(text, i)))

JsonRaises == [ok |-> FALSE, value |-> Null]

\* The list whose "[" is read, `inner` the index of what follows it.
JsonListBody(text, inner) ==
    IF inner <= Len(text) /\ text[inner] = "]"
    THEN [ok |-> TRUE, items |-> <<>>, next |-> inner + 1]
    ELSE JsonItems(text, inner, <<>>)

\* The document is over after the value.
JsonEnds(text, next) == SkipBlanks(text, next) > Len(text)

JsonListValue(text, parsed) ==
    IF parsed.ok /\ JsonEnds(text, parsed.next) THEN [ok |-> TRUE, value |-> List(parsed.items)]
    ELSE JsonRaises

JsonScalarValue(text, v) ==
    IF v.ok /\ JsonEnds(text, v.next)
    THEN [ok |-> TRUE,
          value |-> IF v.quoted \/ v.item # <<"n", "u", "l", "l">> THEN Str(v.item) ELSE Null]
    ELSE JsonRaises

JsonValue(text, start) ==
    IF start > Len(text) THEN JsonRaises
    ELSE IF text[start] = "["
    THEN JsonListValue(text, JsonListBody(text, SkipBlanks(text, start + 1)))
    ELSE JsonScalarValue(text, JsonScalar(text, start))

\* json.loads(text): ok is FALSE when it raises.
json_loads(text) == JsonValue(text, SkipBlanks(text, 1))

(* ---------------------------------------------------------------------- *)
(* Part 3: the high-conviction filter and the /95 commands                 *)
(* ---------------------------------------------------------------------- *)

\* The longest list of events the query for the events of highest liquidity
\* answers with.
MaxEvents == 2

Text_0 == <<"0">>

Text_NA == <<"N", "/", "A">>

\* A market of an event, by the keys the bot reads.
Market(liquidity, outcomePrices, endDateIso, volume) ==
    [liquidity |-> liquidity, outcomePrices |-> outcomePrices,
     endDateIso |-> endDateIso, volume |-> volume]

\* An event: its slug (its title is not told apart from it) and its markets.
Event(slug, markets) == [slug |-> slug, markets |-> markets]

\* line 195: 500_000
LiquidityThreshold == 500000

\* line 223: 0.94
PriceThreshold == Number(94, 100)

\* line 277: timedelta(hours=24)
WindowHours == 24

\* ['0', '0'], lines 199 and 205
DefaultPrices == List(<<Text_0, Text_0>>)

\* lines 203-205: json.loads of the str, ['0', '0'] when it raises.
Decoded(decoded) == IF decoded.ok THEN decoded.value ELSE DefaultPrices

\* A slip: a str is never decoded, ['0', '0'] standing for it.
Decode_never(raw) == IF raw.t = "str" THEN DefaultPrices ELSE raw

\* lines 200-205: a str is JSON-decoded.
Decode(raw) == IF raw.t = "str" THEN Decoded(json_loads(raw.s)) ELSE raw

\* lines 199-205: the outcomePrices of a market.
outcome_prices(market) == Decode(Get(market.outcomePrices, DefaultPrices))

\* lines 211-216: the prices that float() converts, the others dropped.
prices(items) ==
    SelectSeq([i \in DOMAIN items |-> FloatOfText(items[i])], LAMBDA n : n.ok)

\* line 195: liquidity < 500_000
BelowLiquidity(liquidity) == Less(liquidity, Number(LiquidityThreshold, 1))

\* A slip: the price test lets the threshold itself through.
AbovePrice_or_equal(max_price) == ~Less(max_price, PriceThreshold)

\* line 223: max_price > 0.94
AbovePrice(max_price) == Less(PriceThreshold, max_price)

Skipped == [act |-> "skip", item |-> <<>>]

Raised == [act |-> "raise", item |-> <<>>]

\* lines 218-233: the event is kept when the greatest of its prices is above
\* the threshold.
ExaminePrices(slug, liquidity, parsed, end_date) ==
    IF parsed = <<>> THEN Skipped
    ELSE IF AbovePrice(max(parsed))
    THEN [act |-> "keep",
          item |-> [slug |-> slug, max_price |-> max(parsed),
                    liquidity |-> liquidity, end_date |-> end_date]]
    ELSE Skipped

\* lines 194-216: the tests of the liquidity and of the outcomePrices.
ExamineMarket(slug, liquidity, listed, end_date) ==
    IF ~liquidity.ok THEN Raised
    ELSE IF BelowLiquidity(liquidity) THEN Skipped
    ELSE IF listed.t # "list" \/ Len(listed.l) < 1 THEN Skipped
    ELSE ExaminePrices(slug, liquidity, prices(listed.l), end_date)

\* lines 186-233: one turn of the loop of get_high_conviction_events: the event
\* is skipped (continue), kept (append), or float() of its liquidity raises.
Examine(event) ==
    IF event.markets = <<>> THEN Skipped
    ELSE ExamineMarket(event.slug,
                       float(Get(event.markets[1].liquidity, Str(Text_0))),
                       outcome_prices(event.markets[1]),
                       Get(event.markets[1].endDateIso, Str(Text_NA)))

\* lines 184-239: the loop; an exception in any turn makes the result None.
RECURSIVE Scan(_, _)
RECURSIVE ScanTurn(_, _, _)
ScanTurn(turn, rest, high_conviction_events) ==
    IF turn.act = "raise" THEN [ok |-> FALSE, list |-> <<>>]
    ELSE Scan(rest,
              IF turn.act = "keep" THEN Append(high_conviction_events, turn.item)
              ELSE high_conviction_events)

Scan(rest, high_conviction_events) ==
    IF rest = <<>> THEN [ok |-> TRUE, list |-> high_conviction_events]
    ELSE ScanTurn(Examine(Head(rest)), Tail(rest), high_conviction_events)

\* get_high_conviction_events: ok is FALSE when it returns None.
get_high_conviction_events(resp) ==
    IF resp.ok THEN Scan(resp.body, <<>>) ELSE [ok |-> FALSE, list |-> <<>>]

IsLeap(y) == (y % 4 = 0 /\ y % 100 # 0) \/ y % 400 = 0

DaysInMonth(y, m) ==
    IF m = 2 THEN (IF IsLeap(y) THEN 29 ELSE 28)
    ELSE IF m \in {4, 6, 9, 11} THEN 30 ELSE 31

RECURSIVE DaysBeforeMonth(_, _)
DaysBeforeMonth(y, m) ==
    IF m = 1 THEN 0 ELSE DaysBeforeMonth(y, m - 1) + DaysInMonth(y, m - 1)

\* date.toordinal(): the days from 0001-01-01, that day being 1.
Ordinal(y, m, d) ==
    LET before == y - 1
    IN  before * 365 + before \div 4 - before \div 100 + before \div 400
        + DaysBeforeMonth(y, m) + d

AllDigits(text) == \A i \in DOMAIN text : IsDigit(text[i])

\* The date of year y, month m and day d at 00:00 UTC, in hours, when the
\* calendar has it.
DateHours(y, m, d) ==
    IF y >= 1 /\ m \in 1..12 /\ d >= 1 /\ d <= DaysInMonth(y, m)
    THEN [ok |-> TRUE, hours |-> Ordinal(y, m, d) * 24]
    ELSE [ok |-> FALSE, hours |-> 0]

\* %Y-%m-%d of the three fields: four digits of year, one or two of month and
\* of day.
DateOfFields(year, month, day) ==
    IF /\ Len(year) = 4 /\ Len(month) \in {1, 2} /\ Len(day) \in {1, 2}
       /\ AllDigits(year) /\ AllDigits(month) /\ AllDigits(day)
    THEN DateHours(DigitsValue(year), DigitsValue(month), DigitsValue(day))
    ELSE [ok |-> FALSE, hours |-> 0]

\* The text cut at its first two dashes, at first and second.
DateOfText(text, first, second) ==
    IF second > Len(text) THEN [ok |-> FALSE, hours |-> 0]
    ELSE DateOfFields(SubSeq(text, 1, first - 1),
                      SubSeq(text, first + 1, second - 1),
                      SubSeq(text, second + 1, Len(text)))

DateFrom(text, first) == DateOfText(text, first, Find(text, first + 1, {"-"}))

\* line 287: datetime.strptime(value, '%Y-%m-%d') at 00:00 UTC, in hours; ok is
\* FALSE when it raises (None raises TypeError).
strptime(value) ==
    IF value.t = "str" THEN DateFrom(value.s, Find(value.s, 1, {"-"}))
    ELSE [ok |-> FALSE, hours |-> 0]

\* A slip: the window leaves its two ends out.
InWindow_open(t, end_date, cutoff) == t < end_date /\ end_date < cutoff

\* line 288: now <= end_date <= cutoff
InWindow(t, end_date, cutoff) == t <= end_date /\ end_date <= cutoff

\* lines 280-291: whether cmd_95_1d keeps the event.
EndsWithin(e, t) ==
    IF e.end_date = Str(Text_NA) THEN FALSE
    ELSE /\ strptime(e.end_date).ok
         /\ InWindow(t, strptime(e.end_date).hours, t + WindowHours)

\* The reply of a command: that the fetch failed, that no event is found, or
\* the events listed.
Reply(command, fetched, listed) ==
    [by |-> command,
     kind |-> IF ~fetched THEN "failed" ELSE IF listed = <<>> THEN "empty" ELSE "list",
     list |-> listed]

\* lines 241-262, after "Scanning".
Reply95(high_conviction_events) ==
    Reply("cmd_95", high_conviction_events.ok, high_conviction_events.list)

\* lines 264-304, after "Scanning".
Reply95_1d(high_conviction_events, t) ==
    Reply("cmd_95_1d", high_conviction_events.ok,
          SelectSeq(high_conviction_events.list, LAMBDA e : EndsWithin(e, t)))

\* What became of a run of daily_95_report.
Report(outcome, listed) == [by |-> "daily_95_report", kind |-> outcome, list |-> listed]

\* lines 418-435: the report is sent when a chat id is set ("list", "empty";
\* "unsent" without one); when the events could not be had or send_message
\* raised (~delivered), the except clause sends the notice of failure
\* ("failed"; "silent" without a chat id), and when that send_message raises
\* too (~noticed) the exception leaves the job ("raised").
Report95(high_conviction_events, chat, delivered, noticed) ==
    IF high_conviction_events.ok /\ ~chat
    THEN Report("unsent", high_conviction_events.list)
    ELSE IF high_conviction_events.ok /\ delivered
    THEN Report(IF high_conviction_events.list = <<>> THEN "empty" ELSE "list",
                high_conviction_events.list)
    ELSE IF ~chat THEN Report("silent", <<>>)
    ELSE IF noticed THEN Report("failed", <<>>)
    ELSE Report("raised", <<>>)

\* A slip: the report lets a liquidity of 600000 and more through only.
ReportBelowLiquidity_600000(liquidity) == Less(liquidity, Number(600000, 1))

\* line 379: liquidity < 500_000
ReportBelowLiquidity(liquidity) == Less(liquidity, Number(500000, 1))

\* line 407: max_price > 0.94
ReportAbovePrice(max_price) == Less(Number(94, 100), max_price)

\* lines 402-417: the event is put in the report when the greatest of its
\* prices is above 0.94.
ReportExaminePrices(slug, liquidity, parsed, end_date) ==
    IF parsed = <<>> THEN Skipped
    ELSE IF ReportAbovePrice(max(parsed))
    THEN [act |-> "keep",
          item |-> [slug |-> slug, max_price |-> max(parsed),
                    liquidity |-> liquidity, end_date |-> end_date]]
    ELSE Skipped

\* lines 378-400: the tests of the liquidity and of the outcomePrices.
ReportExamineMarket(slug, liquidity, listed, end_date) ==
    IF ~liquidity.ok THEN Raised
    ELSE IF ReportBelowLiquidity(liquidity) THEN Skipped
    ELSE IF listed.t # "list" \/ Len(listed.l) < 1 THEN Skipped
    ELSE ReportExaminePrices(slug, liquidity, prices(listed.l), end_date)

\* lines 370-417: one turn of the loop of daily_95_report.
ReportExamine(event) ==
    IF event.markets = <<>> THEN Skipped
    ELSE ReportExamineMarket(event.slug,
                             float(Get(event.markets[1].liquidity, Str(Text_0))),
                             outcome_prices(event.markets[1]),
                             Get(event.markets[1].endDateIso, Str(Text_NA)))

\* lines 368-417: the loop of daily_95_report; an exception in any turn takes
\* the job to its except clause.
RECURSIVE ReportScan(_, _)
RECURSIVE ReportScanTurn(_, _, _)
ReportScanTurn(turn, rest, high_conviction_events) ==
    IF turn.act = "raise" THEN [ok |-> FALSE, list |-> <<>>]
    ELSE ReportScan(rest,
                    IF turn.act = "keep" THEN Append(high_conviction_events, turn.item)
                    ELSE high_conviction_events)

ReportScan(rest, high_conviction_events) ==
    IF rest = <<>> THEN [ok |-> TRUE, list |-> high_conviction_events]
    ELSE ReportScanTurn(ReportExamine(Head(rest)), Tail(rest), high_conviction_events)

\* lines 363-417: the request of daily_95_report and its loop; ok is FALSE
\* when either raises.
report_events(resp) ==
    IF resp.ok THEN ReportScan(resp.body, <<>>) ELSE [ok |-> FALSE, list |-> <<>>]

\* lines 352-435: a run of the job, with its own request and its own loop.
daily_95_report ==
    /\ phase = "running"
    /\ LET high_conviction_events == report_events(api_response)
       IN  \E delivered \in BOOLEAN, noticed \in BOOLEAN :
              reply' = Report95(high_conviction_events, TELEGRAM_CHAT_ID,
                                delivered, noticed)
    /\ UNCHANGED <<engineVars, api_response, slug_responses, now, overlapVars,
                   scheduleVars>>

cmd_95 ==
    /\ phase = "running"
    /\ reply' = Reply95(get_high_conviction_events(api_response))
    /\ UNCHANGED <<engineVars, api_response, slug_responses, now, overlapVars,
                   scheduleVars>>

cmd_95_1d ==
    /\ phase = "running"
    /\ reply' = Reply95_1d(get_high_conviction_events(api_response), now)
    /\ UNCHANGED <<engineVars, api_response, slug_responses, now, overlapVars,
                   scheduleVars>>

(* ---------------------------------------------------------------------- *)
(* Part 4: the digests of the tracked events                                *)
(* ---------------------------------------------------------------------- *)

\* get_market_details returned None.
NoDetails == [ok |-> FALSE, yes_price |-> Null, volume |-> Null]

\* line 72: outcome_prices[0] of a list that has one, '0' otherwise.
FirstPrice(listed) ==
    IF listed.t = "list" /\ Len(listed.l) > 0 THEN Str(listed.l[1]) ELSE Str(Text_0)

\* lines 43-83: get_market_details on the answer to its request; ok is FALSE
\* when it returns None. (The title and the liquidity are not modelled.)
get_market_details(resp) ==
    IF ~resp.ok \/ resp.body = <<>> THEN NoDetails
    ELSE IF resp.body[1].markets = <<>> THEN NoDetails
    ELSE [ok |-> TRUE,
          yes_price |-> FirstPrice(outcome_prices(resp.body[1].markets[1])),
          volume |-> Get(resp.body[1].markets[1].volume, Str(Text_0))]

\* What one turn of the loop adds to the message: the lines of the event, or
\* the line that its data could not be fetched.
Entry(slug, fetched, yes_price, volume) ==
    [slug |-> slug, fetched |-> fetched, yes_price |-> yes_price, volume |-> volume]

\* lines 147-164 and 338-347: one turn of the loop; float() of the price and
\* of the volume is under no try.
RenderSlug(slug, details) ==
    IF ~details.ok THEN [ok |-> TRUE, entry |-> Entry(slug, FALSE, NotANumber, NotANumber)]
    ELSE IF ~float(details.yes_price).ok \/ ~float(details.volume).ok
    THEN [ok |-> FALSE, entry |-> Entry(slug, FALSE, NotANumber, NotANumber)]
    ELSE [ok |-> TRUE,
          entry |-> Entry(slug, TRUE, float(details.yes_price), float(details.volume))]

\* lines 146-164 and 337-347: the loop over TARGET_EVENT_SLUGS from the i-th
\* on; ok is FALSE when a turn raises.
RECURSIVE Render(_, _, _)
RECURSIVE RenderTurn(_, _, _, _)
RenderTurn(turn, i, responses, message) ==
    IF ~turn.ok THEN [ok |-> FALSE, list |-> message]
    ELSE Render(i + 1, responses, Append(message, turn.entry))

Render(i, responses, message) ==
    IF i > Len(TARGET_EVENT_SLUGS) THEN [ok |-> TRUE, list |-> message]
    ELSE RenderTurn(RenderSlug(TARGET_EVENT_SLUGS[i], get_market_details(responses[i])),
                    i, responses, message)

\* What became of a digest: the handler raised, the message was not sent for
\* want of a chat, or it was sent.
Digest(by, rendered, sends) ==
    [by |-> by,
     kind |-> IF ~rendered.ok THEN "raised" ELSE IF sends THEN "digest" ELSE "unsent",
     list |-> rendered.list]

\* lines 142-166: the /tracking command.
tracking ==
    /\ phase = "running"
    /\ reply' = Digest("tracking", Render(1, slug_responses, <<>>), TRUE)
    /\ UNCHANGED <<engineVars, api_response, slug_responses, now, overlapVars,
                   scheduleVars>>

\* lines 333-350: the daily job.
daily_market_update ==
    /\ phase = "running"
    /\ reply' = Digest("daily_market_update", Render(1, slug_responses, <<>>),
                       TELEGRAM_CHAT_ID)
    /\ UNCHANGED <<engineVars, api_response, slug_responses, now, overlapVars,
                   scheduleVars>>

(* ---------------------------------------------------------------------- *)
(* Part 5: the commands that query nothing, /status and /latest            *)
(* ---------------------------------------------------------------------- *)

\* lines 87-100: the /start command replies with the welcome text.
start ==
    /\ phase = "running"
    /\ reply' = [by |-> "start", kind |-> "text", list |-> <<>>]
    /\ UNCHANGED <<engineVars, api_response, slug_responses, now, overlapVars,
                   scheduleVars>>

\* lines 102-113: the /help command replies with the list of commands.
help_command ==
    /\ phase = "running"
    /\ reply' = [by |-> "help_command", kind |-> "text", list |-> <<>>]
    /\ UNCHANGED <<engineVars, api_response, slug_responses, now, overlapVars,
                   scheduleVars>>

\* A slip: /status stamps the time of the last check with its own.
status_stamping ==
    /\ phase = "running"
    /\ reply' = [by |-> "status", kind |-> "checked", list |-> <<Cardinality(seen_ids)>>]
    /\ last_check_time' = "utcnow"
    /\ UNCHANGED <<TELEGRAM_BOT_TOKEN, TELEGRAM_CHAT_ID, phase, seen_ids, pc,
                   todo, events, initBatch, sameAsInit, repeat, startSeen,
                   tickLog, tickResult, notified, failed, fetchResult>>
    /\ UNCHANGED <<api_response, slug_responses, now, overlapVars, scheduleVars>>

\* lines 115-125: the /status command reads last_check_time ("Never" while it
\* is None) and len(seen_ids); `global last_check_time` is declared and the
\* name is never assigned.
status ==
    /\ phase = "running"
    /\ reply' = [by |-> "status",
                 kind |-> IF last_check_time = "None" THEN "never" ELSE "checked",
                 list |-> <<Cardinality(seen_ids)>>]
    /\ UNCHANGED <<engineVars, api_response, slug_responses, now, overlapVars,
                   scheduleVars>>

\* lines 127-140: the /latest command shows events[0] of its own
\* get_events(limit=1), or that it could not fetch.
latest ==
    /\ phase = "running"
    /\ \E resp \in Responses :
          reply' = IF get_events(resp) # <<>>
                   THEN [by |-> "latest", kind |-> "latest",
                         list |-> <<Head(get_events(resp))>>]
                   ELSE [by |-> "latest", kind |-> "failed", list |-> <<>>]
    /\ UNCHANGED <<engineVars, api_response, slug_responses, now, overlapVars,
                   scheduleVars>>

\* A command or a daily job comes in.
Handlers ==
    \/ start
    \/ help_command
    \/ status
    \/ latest
    \/ tracking
    \/ cmd_95
    \/ cmd_95_1d
    \/ daily_market_update
    \/ daily_95_report

\* The new-market check is followed from the start of the process, through
\* its awaits, until a command or a daily job comes in and is handled.
NextShared ==
    \/ reply = NoReply /\ Next
    \/ reply = NoReply /\ Handlers

SpecShared == Init /\ [][NextShared]_vars

(* ---------------------------------------------------------------------- *)
(* The payloads the commands are run on                                     *)
(* ---------------------------------------------------------------------- *)
Text_499999_99 == <<"4", "9", "9", "9", "9", "9", ".", "9", "9">>

Text_500000 == <<"5", "0", "0", "0", "0", "0">>

Text_500000_01 == <<"5", "0", "0", "0", "0", "0", ".", "0", "1">>

Text_n_a == <<"n", "/", "a">>

Text_0_94 == <<"0", ".", "9", "4">>

Text_0_06 == <<"0", ".", "0", "6">>

Text_0_9401 == <<"0", ".", "9", "4", "0", "1">>

Text_0_0599 == <<"0", ".", "0", "5", "9", "9">>

Text_0_95 == <<"0", ".", "9", "5">>

Text_abc == <<"a", "b", "c">>

Text_json_0_05_0_95 ==
    <<"[", "\"", "0", ".", "0", "5", "\"", ",", " ", "\"", "0", ".", "9",
      "5", "\"", "]">>

Text_2024_02_28 == <<"2", "0", "2", "4", "-", "0", "2", "-", "2", "8">>

Text_2024_02_29 == <<"2", "0", "2", "4", "-", "0", "2", "-", "2", "9">>

Text_2024_03_01 == <<"2", "0", "2", "4", "-", "0", "3", "-", "0", "1">>

Text_2024_03_02 == <<"2", "0", "2", "4", "-", "0", "3", "-", "0", "2">>

Text_2024_3_1 == <<"2", "0", "2", "4", "-", "3", "-", "1">>

Text_2024_02_30 == <<"2", "0", "2", "4", "-", "0", "2", "-", "3", "0">>

Text_2024_02_29T ==
    <<"2", "0", "2", "4", "-", "0", "2", "-", "2", "9", "T", "0", "0", ":",
      "0", "0", ":", "0", "0", "Z">>

\* The liquidity of a market: the key missing, below the threshold, at it, above
\* it, and not a number.
LiquidityFields ==
    <<Absent, Str(Text_499999_99), Str(Text_500000), Str(Text_500000_01),
      Str(Text_n_a)>>

\* The outcomePrices of a market: the key missing, a maximum at the threshold,
\* one above it, a JSON text, no price that converts, one that does not.
PriceFields ==
    <<Absent,
      List(<<Text_0_94, Text_0_06>>),
      List(<<Text_0_0599, Text_0_9401>>),
      Str(Text_json_0_05_0_95),
      List(<<Text_abc>>),
      List(<<Text_abc, Text_0_95>>)>>

\* The events the filter is run on: one per liquidity and outcomePrices, its
\* slug naming the two, and an event without markets.
FilterEvents ==
    {Event(<<l, p>>, <<Market(LiquidityFields[l], PriceFields[p], Absent, Absent)>>) :
        l \in DOMAIN LiquidityFields, p \in DOMAIN PriceFields}
    \cup {Event(<<0, 0>>, <<>>)}

\* The endDateIso of a market: the key missing, null, four days in a row, the
\* third written without zeros, a day the calendar has not, a date with a time.
EndDateFields ==
    <<Absent, Null, Str(Text_2024_02_28), Str(Text_2024_02_29),
      Str(Text_2024_03_01), Str(Text_2024_03_02), Str(Text_2024_3_1),
      Str(Text_2024_02_30), Str(Text_2024_02_29T)>>

\* The events cmd_95_1d is run on: a high-conviction event per endDateIso, slug
\* <<-1, k>>, and one event the filter drops.
EndingEvents ==
    {Event(<<-1, k>>, <<Market(Str(Text_500000_01), PriceFields[3], EndDateFields[k], Absent)>>) :
        k \in DOMAIN EndDateFields}
    \cup {Event(<<-2, 4>>, <<Market(Str(Text_500000_01), PriceFields[2], EndDateFields[4], Absent)>>)}

\* 2024-02-28 00:00 UTC, in hours from 0001-01-01 (day 1).
EpochHours == 738944 * 24

\* The readings of the clock: that midnight, 1, 23, 24 and 36 hours after it.
Nows == {EpochHours + k : k \in {0, 1, 23, 24, 36}}

\* The answers of the upstream to the query for the events of highest
\* liquidity: a failure, or up to MaxEvents events of `universe`.
ApiResponses(universe) ==
    {[ok |-> FALSE, body |-> <<>>]}
    \cup {[ok |-> TRUE, body |-> b] : b \in SeqsUpTo(universe, MaxEvents)}

\* The bot is up, its jobs at rest, after a startup fetch that gave nothing.
EngineAtRest ==
    /\ TELEGRAM_BOT_TOKEN = TRUE
    /\ TELEGRAM_CHAT_ID \in BOOLEAN
    /\ phase = "running"
    /\ seen_ids = {}
    /\ last_check_time = "None"
    /\ pc = "idle"
    /\ todo = <<>>
    /\ events = <<>>
    /\ initBatch = <<>>
    /\ sameAsInit = FALSE
    /\ repeat = FALSE
    /\ startSeen = {}
    /\ tickLog = <<>>
    /\ tickResult = "none"
    /\ notified = {}
    /\ failed = {}
    /\ fetchResult = "none"
    /\ other = NoOther
    /\ startup = 0
    /\ first_run_seconds = FirstRunSeconds(0)
    /\ report_times = <<>>
    /\ polling = FirstStart

InitFilter ==
    /\ EngineAtRest
    /\ api_response \in ApiResponses(FilterEvents)
    /\ slug_responses = NoSlugResponses
    /\ now = EpochHours
    /\ reply = NoReply

InitEnding ==
    /\ EngineAtRest
    /\ api_response \in ApiResponses(EndingEvents)
    /\ slug_responses = NoSlugResponses
    /\ now \in Nows
    /\ reply = NoReply

\* The volume of a market: the key missing, a decimal, a text that is no
\* number, null.
VolumeFields == <<Absent, Str(Text_499999_99), Str(Text_n_a), Null>>

\* The events the upstream answers a tracked slug with: one per outcomePrices
\* and volume, its slug naming the two, and an event without markets.
DigestEvents ==
    {Event(<<p, v>>, <<Market(Absent, PriceFields[p], Absent, VolumeFields[v])>>) :
        p \in DOMAIN PriceFields, v \in DOMAIN VolumeFields}
    \cup {Event(<<0, 0>>, <<>>)}

\* The answers of the upstream to the query for one slug: a failure, no
\* result, or one event.
SlugResponses ==
    {[ok |-> FALSE, body |-> <<>>], [ok |-> TRUE, body |-> <<>>]}
    \cup {[ok |-> TRUE, body |-> <<e>>] : e \in DigestEvents}

InitDigest ==
    /\ EngineAtRest
    /\ api_response = [ok |-> FALSE, body |-> <<>>]
    /\ slug_responses \in [DOMAIN TARGET_EVENT_SLUGS -> SlugResponses]
    /\ now = EpochHours
    /\ reply = NoReply

NextDigest ==
    \/ tracking
    \/ daily_market_update

\* The digests on the answers for the tracked slugs.
SpecDigest == InitDigest /\ [][NextDigest]_vars

\* The first market of an event, <<liquidity, outcomePrices>> as places in
\* LiquidityFields and PriceFields: a liquidity below the threshold, above it,
\* and one that is no number, each with a maximum at 0.94 and one above it.
FirstMarkets == {<<l, p>> : l \in {2, 4, 5}, p \in {2, 3}}

\* The market after the first, where there is one (<<0, 0>>: there is none): one
\* that fails the two tests, one that passes them, one whose liquidity is no
\* number.
SecondMarkets == {<<0, 0>>, <<2, 2>>, <<4, 3>>, <<5, 3>>}

MarketAt(place) ==
    Market(LiquidityFields[place[1]], PriceFields[place[2]], Absent, Absent)

\* The events with one market or two, the slug naming the two, and an event
\* without markets.
TwoMarketEvents ==
    {Event(<<f[1], f[2], n[1], n[2]>>,
           IF n = <<0, 0>> THEN <<MarketAt(f)>> ELSE <<MarketAt(f), MarketAt(n)>>) :
        f \in FirstMarkets, n \in SecondMarkets}
    \cup {Event(<<0, 0, 0, 0>>, <<>>)}

InitFirstMarket ==
    /\ EngineAtRest
    /\ api_response \in ApiResponses(TwoMarketEvents)
    /\ slug_responses = NoSlugResponses
    /\ now = EpochHours
    /\ reply = NoReply

Text_empty == <<>>

Text_open_list == <<"[", "\"", "0", ".", "9", "5", "\"">>

Text_list_and_more == <<"[", "\"", "0", ".", "9", "5", "\"", "]", " ", "x">>

\* The outcome prices as the upstream writes them: at the threshold, above it,
\* no number, and the empty string.
PriceTexts == {Text_0_94, Text_0_9401, Text_abc, Text_empty}

PriceLists == SeqsUpTo(PriceTexts, MaxPrices)

\* What an encoder puts between two items: ", " (json.dumps) or ",".
Separators == {<<",", " ">>, <<",">>}

\* The JSON text of a list of strings that hold no quote and no backslash.
RECURSIVE JsonEncodeItems(_, _)
JsonEncodeItems(items, separator) ==
    IF items = <<>> THEN <<>>
    ELSE <<"\"">> \o Head(items) \o <<"\"">>
         \o (IF Len(items) > 1 THEN separator ELSE <<>>)
         \o JsonEncodeItems(Tail(items), separator)

JsonEncode(items, separator) == <<"[">> \o JsonEncodeItems(items, separator) \o <<"]">>

\* The strings json.loads raises for: nothing, a bare word, a list left open, a
\* list with more after it.
Unparseable == {Text_empty, Text_abc, Text_open_list, Text_list_and_more}

\* The two writings of one outcomePrices: a list and the string that encodes
\* it, or ['0', '0'] and a string that does not parse; `label` tells which.
Writings ==
    {[label |-> "encoded", native |-> List(items),
      text |-> Str(JsonEncode(items, separator))] :
        items \in PriceLists, separator \in Separators}
    \cup {[label |-> "unparseable", native |-> DefaultPrices, text |-> Str(text)] :
            text \in Unparseable}

\* An event of one market that passes the liquidity test and has a volume.
PricedEvent(slug, outcomePrices) ==
    Event(slug, <<Market(Str(Text_500000_01), outcomePrices, Absent, Str(Text_499999_99))>>)

\* The two events of a writing, the native one first or second.
WritingEvents(w, nativeFirst) ==
    IF nativeFirst
    THEN <<PricedEvent("native", w.native), PricedEvent(w.label, w.text)>>
    ELSE <<PricedEvent(w.label, w.text), PricedEvent("native", w.native)>>

\* The upstream answers the query of the filter with the two events of a
\* writing, and the query for each tracked slug with one of them.
InitEncoding ==
    /\ EngineAtRest
    /\ \E w \in Writings, nativeFirst \in BOOLEAN :
          /\ api_response = [ok |-> TRUE, body |-> WritingEvents(w, nativeFirst)]
          /\ slug_responses =
                [i \in DOMAIN TARGET_EVENT_SLUGS |->
                    [ok |-> TRUE, body |-> <<WritingEvents(w, nativeFirst)[i]>>]]
    /\ now = EpochHours
    /\ reply = NoReply

NextEncoding ==
    \/ cmd_95
    \/ daily_95_report
    \/ tracking
    \/ daily_market_update

\* The filter and the digests on the two writings of an outcomePrices.
SpecEncoding == InitEncoding /\ [][NextEncoding]_vars

NextQuery ==
    \/ cmd_95
    \/ cmd_95_1d

NextReport ==
    \/ cmd_95
    \/ daily_95_report

\* The events the report job is run on: those of FilterEvents with every
\* liquidity and with a maximum price at the threshold, above it, or written
\* as a JSON text.
ReportEvents ==
    {e \in FilterEvents : e.slug = <<0, 0>> \/ e.slug[2] \in {2, 3, 4}}

InitReport ==
    /\ EngineAtRest
    /\ api_response \in ApiResponses(ReportEvents)
    /\ slug_responses = NoSlugResponses
    /\ now = EpochHours
    /\ reply = NoReply

\* The /95 command and the report job on the same answers of the upstream.
SpecReport == InitReport /\ [][NextReport]_vars

\* The /95 commands on the payloads of the filter.
SpecFilter == InitFilter /\ [][NextQuery]_vars

\* The /95 commands on the events of one market or two.
SpecFirstMarket == InitFirstMarket /\ [][NextQuery]_vars

\* The /95 commands on the payloads with end dates.
SpecEnding == InitEnding /\ [][NextQuery]_vars

(* ---------------------------------------------------------------------- *)
(* Claims about the seen-set engine                                        *)
(* ---------------------------------------------------------------------- *)

\* The identifiers of a batch: what event.get('id') gives, where it is an id.
BatchIds(batch) == SelectSeq(batch, LAMBDA e : e # NoId)

IsPrefix(s, t) == Len(s) <= Len(t) /\ \A i \in 1..Len(s) : s[i] = t[i]

Reverse(s) == [i \in 1..Len(s) |-> s[Len(s) + 1 - i]]

Distinct(s) == \A i, j \in 1..Len(s) : i # j => s[i] # s[j]

TickOver == tickResult \in {"returned", "raised"}

\* C1: over the whole run, send_message is called at most once per identifier:
\* no step calls it for an identifier it was called for before, so that no
\* identifier is reported new twice.
C1_ReportedOnce == [][pc' = "sending" => Head(todo') \notin notified]_vars

\* C2: startup silence. The first check after main's initialisation, when it
\* fetches the batch the initialisation fetched, calls send_message for nothing.
C2_StartupSilence == sameAsInit => tickLog = <<>>

\* C2's case: the first check ran to its end on the batch of the initialisation,
\* a batch of at least two identifiers, with a chat id to send to.
C2_Witness ==
    /\ sameAsInit
    /\ tickResult = "returned"
    /\ TELEGRAM_CHAT_ID
    /\ Cardinality(Range(BatchIds(events))) >= 2

\* C3: a check that starts with an empty seen set notifies none of the
\* identifiers of its batch.
C3_FirstPopulationSilent == startSeen = {} => tickLog = <<>>

\* C4 as stated: a check that ran to its end, with a chat id to send to, on a
\* batch of distinct identifiers none of which was seen, notified every one of
\* them, in reverse batch order.
C4_AsStated ==
    (/\ tickResult = "returned"
     /\ TELEGRAM_CHAT_ID
     /\ Distinct(events)
     /\ NoId \notin Range(events)
     /\ Range(events) \cap startSeen = {})
    => tickLog = Reverse(events)

\* C4, amended: when the seen set is not empty as the check begins and none of
\* the batch's identifiers is in it, the send_message calls of the check follow
\* the reversed batch (events without an id skipped, an identifier the batch
\* repeats notified once): all of it when the check returns with a chat id
\* configured, a non-empty start of it up to the call that raised when it
\* raises, and nothing without a chat id.
C4_OldestFirst ==
    (/\ tickResult # "none"
     /\ startSeen # {}
     /\ Range(BatchIds(events)) \cap startSeen = {})
    => LET order == Reverse(BatchIds(events))
           first == SelectSeq([i \in 1..Len(order) |-> <<i, order[i]>>],
                              LAMBDA p : \A j \in 1..(p[1] - 1) : order[j] # p[2])
           want == [i \in 1..Len(first) |-> first[i][2]]
       IN  /\ IsPrefix(tickLog, want)
           /\ ~TELEGRAM_CHAT_ID => tickLog = <<>>
           /\ (tickResult = "returned" /\ TELEGRAM_CHAT_ID) => tickLog = want
           /\ tickResult \in {"running", "raised"} => tickLog # <<>>

\* C4's case: a batch of distinct unseen identifiers, two at least, was notified in
\* reverse batch order.
C4_Witness ==
    /\ tickResult = "returned"
    /\ startSeen # {}
    /\ Len(events) >= 2
    /\ Distinct(events)
    /\ NoId \notin Range(events)
    /\ Range(events) \cap startSeen = {}
    /\ tickLog = Reverse(events)
    /\ tickLog # events

\* C5: a check that fetches the batch the check before it fetched calls
\* send_message for nothing and leaves the seen set as it found it.
C5_Idempotent == (repeat /\ TickOver) => (tickLog = <<>> /\ seen_ids = startSeen)

\* C6: the seen set only grows: every step leaves it a superset of what it was.
C6_Monotonic == [][seen_ids \subseteq seen_ids']_vars

\* C6's case: a check has added an identifier while an identifier that is not in
\* its batch stays in the seen set.
C6_Witness ==
    /\ tickResult = "returned"
    /\ startSeen # seen_ids
    /\ \E x \in Ids : x \in startSeen /\ x \in seen_ids /\ x \notin Range(events)

(* ---------------------------------------------------------------------- *)
(* Claims about the high-conviction filter                                  *)
(* ---------------------------------------------------------------------- *)

\* The liquidities of LiquidityFields in cents, written by hand; -1 for the
\* text that is no number.
LiquidityCents == <<0, 49999999, 50000000, 50000001, -1>>

\* The greatest price of each of PriceFields in ten-thousandths, written by
\* hand; -1 where no price converts.
MaxPriceE4 == <<0, 9400, 9401, 9500, -1, 9500>>

\* The hour each of EndDateFields starts at, counted from EpochHours, written
\* by hand; -1 where there is no date.
EndDateOffset == <<-1, -1, 0, 24, 48, 72, 48, -1, -1>>

Slugs(list) == {list[i].slug : i \in DOMAIN list}

\* cmd_95 has replied with the result of the filter.
Filtered == reply.by = "cmd_95" /\ reply.kind # "failed"

\* C7: an event whose first market has a liquidity of exactly 500000 is left
\* out of the result of the filter, whatever its prices.
C7_ThresholdLiquidityExcluded ==
    Filtered => \A slug \in Slugs(reply.list) : LiquidityCents[slug[1]] # 50000000

\* C8: of the events that pass the liquidity test, the filter keeps exactly
\* those whose greatest outcome price is above 0.94: one of exactly 0.94 is
\* left out, one of 0.9401 is kept.
C8_PriceBoundary ==
    Filtered =>
        \A i \in DOMAIN api_response.body :
            LET slug == api_response.body[i].slug
            IN  (slug # <<0, 0>> /\ LiquidityCents[slug[1]] >= 50000000)
                => (slug \in Slugs(reply.list) <=> MaxPriceE4[slug[2]] > 9400)

\* The filter has met a price of 0.94 and one of 0.9401 at a liquidity above
\* the threshold, and kept the second alone.
C8_Witness ==
    /\ Filtered
    /\ {api_response.body[i].slug : i \in DOMAIN api_response.body} = {<<4, 2>>, <<4, 3>>}
    /\ Slugs(reply.list) = {<<4, 3>>}

\* cmd_95_1d has replied with the events it kept.
Windowed == reply.by = "cmd_95_1d" /\ reply.kind # "failed"

\* Whether the end date of the high-conviction event is a date within the 24
\* hours from now, both ends counted, by the table.
EndsInClosedWindow(e) ==
    /\ EndDateOffset[e.slug[2]] >= 0
    /\ now <= EpochHours + EndDateOffset[e.slug[2]]
    /\ EpochHours + EndDateOffset[e.slug[2]] <= now + 24

\* C9: cmd_95_1d keeps a high-conviction event exactly when its end date is a
\* date from now to now + 24 hours, both ends counted; an event without end
\* date, or with one that is no date, is left out and the command replies.
C9_ClosedWindow ==
    Windowed =>
        reply.list = SelectSeq(get_high_conviction_events(api_response).list,
                               EndsInClosedWindow)

\* At midnight of 2024-02-28 the command has met an event that ends at that
\* instant and one that ends 24 hours later, and kept both.
C9_Witness ==
    /\ Windowed
    /\ now = EpochHours
    /\ Slugs(reply.list) = {<<-1, 3>>, <<-1, 4>>}

\* At 2024-02-28 01:00 the command has met an event without end date and one
\* whose end date is no date, and replied that nothing is found.
C9_WitnessUnparseable ==
    /\ reply.by = "cmd_95_1d"
    /\ reply.kind = "empty"
    /\ {api_response.body[i].slug : i \in DOMAIN api_response.body} = {<<-1, 1>>, <<-1, 8>>}

(* ---------------------------------------------------------------------- *)
(* Claims about the digests                                                 *)
(* ---------------------------------------------------------------------- *)

\* C10: whatever the upstream answers for each tracked slug, a digest is
\* rendered and holds one entry per slug of TARGET_EVENT_SLUGS, in their
\* order.
C10_DigestNeverAborts ==
    reply.by \in {"tracking", "daily_market_update"} =>
        /\ reply.kind # "raised"
        /\ [i \in DOMAIN reply.list |-> reply.list[i].slug] = TARGET_EVENT_SLUGS

(* ---------------------------------------------------------------------- *)
(* Claims about failures and overlapping executions                         *)
(* ---------------------------------------------------------------------- *)

\* C11: two executions of check_new_events never notify the same identifier:
\* at no time are both awaiting send_message for one identifier.
C11_AtomicReadThenAdd ==
    ~(pc = "sending" /\ other.pc = "sending" /\ Head(todo) = Head(other.todo))

\* C12: an identifier for which send_message raised is never notified again:
\* no later call of send_message is for it.
C12_FailuresNotRetried ==
    [][pc' = "sending" => Head(todo') \notin failed]_vars

\* C13: a check whose request fails returns without a call of send_message
\* and leaves the seen set as it found it.
C13_FailedFetchIsNoOp ==
    fetchResult = "failed" =>
        /\ tickResult = "returned"
        /\ pc = "idle"
        /\ tickLog = <<>>
        /\ seen_ids = startSeen

\* The request of a check has failed while the chat id is set and the seen
\* set holds some identifiers and lacks others.
C13_Witness ==
    /\ fetchResult = "failed"
    /\ TELEGRAM_CHAT_ID
    /\ startSeen # {}
    /\ startSeen # Ids

\* C14: a run of daily_95_report whose request fails sends nothing to the chat
\* and lets no exception out of the job.
C14_FailedCycleIsSilent ==
    (reply.by = "daily_95_report" /\ ~api_response.ok) => reply.kind = "silent"

(* ---------------------------------------------------------------------- *)
(* Claims about the schedule and the startup                                *)
(* ---------------------------------------------------------------------- *)

\* C15: the delay of the first run of daily_95_report is above 0 and at most
\* 24 hours, and the startup instant plus the delay is 10:15:00 UTC: the next
\* one, tomorrow's when the startup is at 10:15:00 itself.
C15_AnchoredFirstRun ==
    phase = "running" =>
        /\ first_run_seconds > 0
        /\ first_run_seconds <= 86400
        /\ (startup + first_run_seconds) % 86400 = 36900

\* The bot has started at 10:15:00 and the first run is 24 hours away.
C15_Witness ==
    /\ phase = "running"
    /\ startup % 86400 = 36900
    /\ first_run_seconds = 86400

\* C16, as stated: the runs are 28800 seconds apart from the first, and a run
\* on a later day than the first is not at 10:15:00 UTC.
C16_AsStated ==
    \A k \in DOMAIN report_times :
        /\ report_times[k] = report_times[1] + (k - 1) * 28800
        /\ (report_times[k] \div 86400 > report_times[1] \div 86400)
               => report_times[k] % 86400 # 36900

\* C16, amended: the runs are 28800 seconds apart from the first, which is
\* at the anchor; three intervals being 24 hours, the runs are at 10:15:00,
\* 18:15:00 and 02:15:00 UTC in turn, every third at 10:15:00 again.
C16_FixedInterval ==
    \A k \in DOMAIN report_times :
        /\ report_times[k] = startup + first_run_seconds + (k - 1) * 28800
        /\ report_times[k] % 86400 = <<36900, 65700, 8100>>[((k - 1) % 3) + 1]

\* The fourth run is 24 hours after the first, at 10:15:00 UTC.
C16_Witness ==
    /\ Len(report_times) >= 4
    /\ report_times[4] = report_times[1] + 86400
    /\ report_times[4] % 86400 = 36900

\* C17: the seen set is initialised once, by main, before any run of
\* check_new_events: until then no check has begun and no send_message was
\* called, the initialisation calls none, and once done it is not done again.
C17_InitialisedOnceBeforeChecks ==
    /\ [](phase # "running" =>
            (tickResult = "none" /\ fetchResult = "none" /\ notified = {}))
    /\ [][(phase = "boot" /\ phase' = "running") => notified' = {}]_vars
    /\ [][phase # "boot" => phase' = phase]_vars

\* The seen set was initialised from a batch, and a check after it has called
\* send_message.
C17_Witness ==
    /\ phase = "running"
    /\ startSeen # {}
    /\ tickResult = "returned"
    /\ tickLog # <<>>

\* C18: the bot runs its jobs only with its credentials, the bot token and
\* the chat id, both set.
C18_NoRunWithoutCredentials ==
    phase = "running" => (TELEGRAM_BOT_TOKEN /\ TELEGRAM_CHAT_ID)

\* C19: when a check that began with a seen set that is not empty is over,
\* every identifier of its batch is in the seen set, and send_message was
\* called for each that was not in it as the check began.
C19_Complete ==
    (TickOver /\ startSeen # {}) =>
        /\ Range(BatchIds(events)) \subseteq seen_ids
        /\ Range(BatchIds(events)) \ startSeen \subseteq Range(tickLog)

\* C20: whatever the payload of an event of the batch, cmd_95 replies with the
\* result of the filter, and the events of the batch that are well formed and
\* pass the two tests are in it.
C20_MalformedItemIsSkipped ==
    (reply.by = "cmd_95" /\ api_response.ok) =>
        /\ reply.kind # "failed"
        /\ \A i \in DOMAIN api_response.body :
              LET slug == api_response.body[i].slug
              IN  (/\ slug # <<0, 0>>
                   /\ LiquidityCents[slug[1]] >= 50000000
                   /\ MaxPriceE4[slug[2]] > 9400)
                  => slug \in Slugs(reply.list)

(* ---------------------------------------------------------------------- *)
(* Claims about the shared state                                           *)
(* ---------------------------------------------------------------------- *)

\* The handlers that are not the new-market check: the seven commands and the
\* two daily jobs.
Readers ==
    {"start", "help_command", "status", "latest", "tracking", "cmd_95",
     "cmd_95_1d", "daily_market_update", "daily_95_report"}

\* C21: a step in which a command, the tracked-digest job or the report job
\* replies leaves the seen set and the time of the last check as they were,
\* wherever the new-market check stands.
C21_SingleWriter ==
    [][(reply' # reply /\ reply'.by \in Readers)
          => (seen_ids' = seen_ids /\ last_check_time' = last_check_time)]_vars

\* /status has replied while a check that started from a seen set that is not
\* empty awaits send_message.
C21_Witness ==
    /\ reply.by = "status"
    /\ reply.kind = "checked"
    /\ pc = "sending"
    /\ seen_ids # {}

(* ---------------------------------------------------------------------- *)
(* Claims about the filter as a whole                                      *)
(* ---------------------------------------------------------------------- *)

\* The first market named by the slug of an event of TwoMarketEvents passes the
\* liquidity test and the price test, by the tables written by hand.
FirstMarketPasses(slug) ==
    /\ slug # <<0, 0, 0, 0>>
    /\ LiquidityCents[slug[1]] >= 50000000
    /\ MaxPriceE4[slug[2]] > 9400

SlugsInOrder(list) == [i \in DOMAIN list |-> list[i].slug]

\* C22: the result of the filter for a batch is the batch in its order, cut
\* down to the events that have a market and whose first market passes the
\* liquidity test and the price test, whatever the markets after the first.
C22_ReferenceFilter ==
    (reply.by = "cmd_95" /\ api_response.ok) =>
        /\ reply.kind # "failed"
        /\ SlugsInOrder(reply.list)
              = SelectSeq(SlugsInOrder(api_response.body), FirstMarketPasses)

(* ---------------------------------------------------------------------- *)
(* Claims about the two writings of outcomePrices                          *)
(* ---------------------------------------------------------------------- *)

\* The filter has answered: /95 replied with its result, or the report job
\* built its message from it.
FilterAnswered ==
    \/ reply.by = "cmd_95"
    \/ reply.by = "daily_95_report" /\ reply.kind \in {"list", "empty", "unsent"}

DigestAnswered == reply.by \in {"tracking", "daily_market_update"}

\* The upstream wrote one of the two outcomePrices as a string that does not
\* parse.
HasUnparseable ==
    \E i \in DOMAIN api_response.body : api_response.body[i].slug = "unparseable"

\* C23: an outcomePrices written as a list and the same written as the string
\* of its JSON give the same result: the filter keeps both events with one
\* maximum or drops both, the digest shows one yes price for both or raises
\* for either. A string that does not parse gives what ['0', '0'] gives, the
\* event dropped and a yes price of 0, and nothing raises for it.
C23_EncodingIndependent ==
    /\ FilterAnswered =>
          /\ reply.kind # "failed"
          /\ \/ reply.list = <<>>
             \/ /\ Len(reply.list) = 2
                /\ reply.list[1].max_price = reply.list[2].max_price
                /\ reply.list[1].liquidity = reply.list[2].liquidity
                /\ reply.list[1].end_date = reply.list[2].end_date
    /\ DigestAnswered =>
          \/ reply.kind = "raised" /\ reply.list = <<>>
          \/ /\ reply.kind # "raised"
             /\ Len(reply.list) = 2
             /\ reply.list[1].fetched /\ reply.list[2].fetched
             /\ reply.list[1].yes_price = reply.list[2].yes_price
             /\ reply.list[1].volume = reply.list[2].volume
    /\ (HasUnparseable /\ FilterAnswered) => reply.list = <<>>
    /\ (HasUnparseable /\ DigestAnswered) =>
          /\ reply.kind # "raised"
          /\ reply.list[1].yes_price = Number(0, 1)

\* /95 has kept the two events of a list whose maximum is above 0.94, the
\* second of them written as a string.
C23_Witness ==
    /\ reply.by = "cmd_95"
    /\ Len(reply.list) = 2
    /\ api_response.body[2].slug = "encoded"
    /\ api_response.body[2].markets[1].outcomePrices.t = "str"
    /\ Len(api_response.body[1].markets[1].outcomePrices.l) = 2

(* ---------------------------------------------------------------------- *)
(* Claims about the report job and /95                                     *)
(* ---------------------------------------------------------------------- *)

\* The report job built its message from the events it found.
ReportBuilt ==
    reply.by = "daily_95_report" /\ reply.kind \in {"list", "empty", "unsent"}

\* C24: on one answer of the upstream the report job lists the events /95
\* lists, with the same slugs, prices, liquidities and end dates in the same
\* order, and an answer for which /95 replies that the fetch failed is never
\* reported as an empty result, nor the other way round.
C24_SameQuery ==
    /\ ReportBuilt =>
          Reply95(get_high_conviction_events(api_response))
            = [by |-> "cmd_95",
               kind |-> IF reply.list = <<>> THEN "empty" ELSE "list",
               list |-> reply.list]
    /\ reply.by = "cmd_95" =>
          /\ reply.kind = "failed" <=> ~report_events(api_response).ok
          /\ reply.kind # "failed" => reply.list = report_events(api_response).list

\* The report job has listed two events, and the upstream answer is one for
\* which the filter drops none.
C24_Witness ==
    /\ reply.by = "daily_95_report"
    /\ reply.kind = "list"
    /\ Len(reply.list) = 2
    /\ reply.list[1].slug # reply.list[2].slug

\* The report job has met a liquidity that is no number and sent its notice of
\* failure.
C24_WitnessFailed ==
    /\ reply.by = "daily_95_report"
    /\ reply.kind = "failed"
    /\ api_response.ok

(* ---------------------------------------------------------------------- *)
(* Claims about the start of the polling                                   *)
(* ---------------------------------------------------------------------- *)

\* The loop of main is over.
PollingOver == polling.state \in {"returned", "raised", "ended"}

\* C25: run_polling is called five times at most. It is called again only
\* after an error that names a Conflict, on the first four calls, after waits
\* of 5, 10, 20 and 40 seconds; any other error, and a Conflict on the fifth
\* call, is raised again and ends the process; a call that returns ends the
\* loop; and once the loop is over nothing more is called.
C25_RetryLoopTerminates ==
    /\ [](/\ polling.starts <= 5
          /\ Len(polling.sleeps) <= 4
          /\ \A i \in DOMAIN polling.sleeps : polling.sleeps[i] = <<5, 10, 20, 40>>[i]
          /\ polling.state # "none" => polling.starts = Len(polling.sleeps) + 1
          /\ polling.state # "ended"
          /\ polling.state = "raised" =>
                \/ polling.error = "other"
                \/ polling.error = "Conflict" /\ polling.starts = 5
          /\ PollingOver => phase = "exited")
    /\ [][(polling.starts >= 1 /\ polling'.starts # polling.starts) =>
            /\ polling'.starts = polling.starts + 1
            /\ polling.starts <= 4
            /\ polling'.error = "Conflict"
            /\ Len(polling'.sleeps) = Len(polling.sleeps) + 1]_vars
    /\ [][(polling.state = "polling" /\ polling' # polling) =>
            \/ polling'.starts = polling.starts + 1
            \/ polling'.state \in {"returned", "raised"}]_vars
    /\ [][PollingOver => polling' = polling]_vars

\* A Conflict on each of the five calls: four waits, then the error ends the
\* process.
C25_Witness ==
    /\ polling.state = "raised"
    /\ polling.error = "Conflict"
    /\ polling.starts = 5
    /\ polling.sleeps = <<5, 10, 20, 40>>
    /\ phase = "exited"

\* The second call of run_polling returns.
C25_WitnessReturned ==
    /\ polling.state = "returned"
    /\ polling.starts = 2
    /\ polling.sleeps = <<5>>

====
